---- MODULE Spec2Model ----
(***************************************************************************)
(* A model of ILAMB's confrontation engine: Confrontation.stageData,       *)
(* Confrontation.confront, Confrontation.modelPlots and                    *)
(* GPPFluxnetGlobalMTE.confront.                                            *)
(*                                                                         *)
(* Representation.  Time stamps are integers in hundredths of a day.  A    *)
(* datum is represented by 100*log10|x| (an integer), which is all that    *)
(* the order-of-magnitude pass of stageData looks at; a unit conversion    *)
(* multiplies data by a factor, i.e. adds a constant to this logarithm.    *)
(***************************************************************************)
EXTENDS Integers, Sequences, FiniteSets, TLC

\* ------------------------------------------------------------------ bounds
NumInst      == 2     \* Confrontation instances of the same confrontation
NumDeps      == 1     \* dependent Confrontations in self.relationships
MaxConfronts == 2     \* confront calls started in one run

\* --------------------------------------------------------- program constants
ATolCentiDays == 2000     \* atol=20 (days), in hundredths of a day
RTolInv       == 100000   \* 1/rtol, np.allclose's default rtol=1e-05
OrderLimit    == -200     \* order < -2, in hundredths of a decade
MaxPasses     == 2        \* count < 2
ClipFloor     == -1600    \* clip(1e-16), in hundredths of a decade

Insts == 1..NumInst
Deps  == 1..NumDeps
Confs == 0..NumDeps       \* 0: the confrontation itself, c >= 1: its c-th dependent

\* --------------------------------------------------------- small arithmetic
Abs(x) == IF x < 0 THEN -x ELSE x

Max2(a, b) == IF a >= b THEN a ELSE b

Min2(a, b) == IF a <= b THEN a ELSE b

RECURSIVE SeqSum(_)
SeqSum(s) == IF s = <<>> THEN 0 ELSE Head(s) + SeqSum(Tail(s))

\* t.min() and t.max() of a non-empty array
SeqMin(s) == CHOOSE x \in {s[k] : k \in 1..Len(s)} : \A k \in 1..Len(s) : x <= s[k]

SeqMax(s) == CHOOSE x \in {s[k] : k \in 1..Len(s)} : \A k \in 1..Len(s) : x >= s[k]

\* np.argmin(np.abs(time-t)): the FIRST index of a minimum (1-based here)
ArgMinAbs(time, t) ==
    CHOOSE k \in 1..Len(time) :
        /\ \A j \in 1..Len(time) : Abs(time[k] - t) <= Abs(time[j] - t)
        /\ \A j \in 1..(k-1) : Abs(time[j] - t) > Abs(time[k] - t)

\* ----------------------------------------------------------------- units
\* The unit registry: the units that occur, the dimension of each, and the
\* logarithm (hundredths of a decade) of the factor from the base unit.
Units == {"kg m-2 s-1", "kg m-2 d-1", "g m-2 s-1", "g m-2 d-1", "K"}

UnitDim(u) == IF u = "K" THEN "temperature" ELSE "massflux"

UnitLog(u) ==
    CASE u = "kg m-2 s-1" -> 0
      [] u = "g m-2 s-1"  -> 300      \* 1 kg = 1e3 g
      [] u = "kg m-2 d-1" -> 494      \* 1 d = 86400 s, log10 = 4.94
      [] u = "g m-2 d-1"  -> 794
      [] OTHER            -> 0

\* "s-1" in var.unit , "kg" in var.unit
HasS1(u) == u \in {"kg m-2 s-1", "g m-2 s-1"}

HasKg(u) == u \in {"kg m-2 s-1", "kg m-2 d-1"}

\* var.unit.replace("s-1","d-1") , var.unit.replace("kg","g")
ReplaceS1(u) ==
    CASE u = "kg m-2 s-1" -> "kg m-2 d-1"
      [] u = "g m-2 s-1"  -> "g m-2 d-1"
      [] OTHER            -> u

ReplaceKg(u) ==
    CASE u = "kg m-2 s-1" -> "g m-2 s-1"
      [] u = "kg m-2 d-1" -> "g m-2 d-1"
      [] OTHER            -> u

\* -------------------------------------------------------------- Variable
\* A Variable: time axis (temporal = FALSE stands for time = None), data
\* along the time axis, unit, and the gridded/site flag.
Var(temporal, spatial, time, dat, unit) ==
    [temporal |-> temporal, spatial |-> spatial, time |-> time, data |-> dat, unit |-> unit]

NoVar == Var(FALSE, FALSE, <<>>, <<>>, "K")

\* Variable.convert: a new Variable in the requested unit, data rescaled;
\* the caller tests Convertible first (UnknownUnit otherwise).
Convertible(u, v) == UnitDim(u) = UnitDim(v)

Convert(var, unit) ==
    [var EXCEPT !.unit = unit,
                !.data = [k \in 1..Len(var.data) |->
                             var.data[k] + UnitLog(unit) - UnitLog(var.unit)]]

\* --------------------------------------------------------------- models
\* What a model offers for the requested quantity: has = "direct" (found by
\* extractTimeSeries), "derived" (only the derived expression evaluates) or
\* "none" (neither).
ModelRec(has, areas, var) == [has |-> has, areas |-> areas, var |-> var, windowed |-> TRUE]

\* a model that hands out its whole series, whatever window is asked for
Unwindowed(rec) == [rec EXCEPT !.windowed = FALSE]

\* the samples of var inside [t0, tf]
Window(var, t0, tf) ==
    LET keep == {k \in 1..Len(var.time) : t0 <= var.time[k] /\ var.time[k] <= tf}
        lo   == CHOOSE k \in keep : \A j \in keep : k <= j
        hi   == CHOOSE k \in keep : \A j \in keep : k >= j
    IN  IF keep = {} THEN [var EXCEPT !.time = <<>>, !.data = <<>>]
        ELSE [var EXCEPT !.time = SubSeq(var.time, lo, hi),
                         !.data = SubSeq(var.data, lo, hi)]

\* m.extractTimeSeries(..., initial_time=t0, final_time=tf)
ExtractTimeSeries(m, t0, tf) == IF m.windowed THEN Window(m.var, t0, tf) ELSE m.var

\* m.derivedVariable(name, expression, ..., initial_time=t0, final_time=tf)
DerivedVariable(m, t0, tf) == IF m.windowed THEN Window(m.var, t0, tf) ELSE m.var

\* ------------------------------------------------------------- stageData
\* lines 174-177 with the sample nearest tf left out
ClipSeriesExclusive(var, t0, tf) ==
    LET begin == ArgMinAbs(var.time, t0)
        end   == ArgMinAbs(var.time, tf)
    IN  [var EXCEPT !.time = SubSeq(var.time, begin, end - 1),
                    !.data = SubSeq(var.data, begin, end - 1)]

\* lines 174-177: var.time = var.time[begin:end]; var.data = var.data[begin:end]
ClipSeries(var, t0, tf) ==
    LET begin == ArgMinAbs(var.time, t0)
        end   == ArgMinAbs(var.time, tf)
    IN  [var EXCEPT !.time = SubSeq(var.time, begin, end),
                    !.data = SubSeq(var.data, begin, end)]

\* |x-y| <= atol + rtol*|y|, in whole numbers: RTolInv*(|x-y| - atol) <= |y|
WithinTolerance(x, y) ==
    LET over == Abs(x - y) - ATolCentiDays
    IN  \/ over <= 0
        \/ over <= Abs(y) \div RTolInv + 1 /\ RTolInv * over <= Abs(y)

\* np.allclose(a, b, atol=20): |a-b| <= atol + rtol*|b| at every sample
AllClose(a, b) == \A k \in 1..Len(a) : WithinTolerance(a[k], b[k])

\* _getOrder(var) < -2 : mean of log10(|data|.clip(1e-16)) below -2
OrderBelow(var) ==
    /\ var.data # <<>>
    /\ SeqSum([k \in 1..Len(var.data) |-> Max2(var.data[k], ClipFloor)])
           < OrderLimit * Len(var.data)

\* _reduceRoundoffErrors with the two substitutions tried in the other order
ReduceRoundoffErrorsKgFirst(var) ==
    IF HasKg(var.unit) THEN Convert(var, ReplaceKg(var.unit))
    ELSE IF HasS1(var.unit) THEN Convert(var, ReplaceS1(var.unit))
    ELSE var

\* lines 187-190: _reduceRoundoffErrors
ReduceRoundoffErrors(var) ==
    IF HasS1(var.unit) THEN Convert(var, ReplaceS1(var.unit))
    ELSE IF HasKg(var.unit) THEN Convert(var, ReplaceKg(var.unit))
    ELSE var

\* the while loop of lines 193-198, from count on
RECURSIVE Normalize(_, _)
Normalize(var, count) ==
    IF OrderBelow(var) /\ count < MaxPasses
    THEN Normalize(ReduceRoundoffErrors(var), count + 1)
    ELSE [var |-> var, count |-> count]

Cache(loaded, var) == [loaded |-> loaded, var |-> var]

NoCache == Cache(FALSE, NoVar)

StageRes(status, obs, mod, cache, calls, passes) ==
    [status |-> status, obs |-> obs, mod |-> mod, cache |-> cache,
     calls |-> calls, passes |-> passes]

\* lines 170-177: the pair after the clipping step (both series non-empty)
StageAlign(obs0, mod0) ==
    LET t0 == Max2(SeqMin(obs0.time), SeqMin(mod0.time))
        tf == Min2(SeqMax(obs0.time), SeqMax(mod0.time))
    IN  IF Len(obs0.time) # Len(mod0.time)
        THEN [obs |-> ClipSeries(obs0, t0, tf), mod |-> ClipSeries(mod0, t0, tf)]
        ELSE [obs |-> obs0, mod |-> mod0]

\* lines 179-180 with the two checks in the other order
StageVerdictToleranceFirst(obs1, mod1) ==
    IF \E k \in 1..Min2(Len(obs1.time), Len(mod1.time)) :
           ~WithinTolerance(obs1.time[k], mod1.time[k])
        THEN "VarsNotComparable"
    ELSE IF Len(obs1.time) # Len(mod1.time) THEN "VarNotOnTimeScale"
    ELSE "ok"

\* lines 179-180: the two alignment checks, in order
StageVerdict(obs1, mod1) ==
    IF Len(obs1.time) # Len(mod1.time) THEN "VarNotOnTimeScale"
    ELSE IF ~AllClose(obs1.time, mod1.time) THEN "VarsNotComparable"
    ELSE "ok"

\* lines 186-202: the order-of-magnitude passes on the observation, then the
\* conversion of the model data to the observation's unit
StageFinishNoConvert(obs1, mod1, c1, calls) ==
    LET norm == Normalize(obs1, 0)
    IN  IF ~Convertible(mod1.unit, norm.var.unit)
        THEN StageRes("UnknownUnit", NoVar, NoVar, c1, calls, norm.count)
        ELSE StageRes("ok", norm.var, mod1, c1, calls, norm.count)

StageFinish(obs1, mod1, c1, calls) ==
    LET norm == Normalize(obs1, 0)
    IN  IF ~Convertible(mod1.unit, norm.var.unit)
        THEN StageRes("UnknownUnit", NoVar, NoVar, c1, calls, norm.count)
        ELSE StageRes("ok", norm.var, Convert(mod1, norm.var.unit), c1, calls, norm.count)

\* a call on a collaborator: the time window asked for and whether the
\* observation's site coordinates (lats, lons) were passed
Call(op, t0, tf, coords) == [op |-> op, t0 |-> t0, tf |-> tf, coords |-> coords]

LoadCall == Call("load", 0, 0, FALSE)

\* lines 145-168 with the derivation tried first and extraction as fallback
StageExtractDeriveFirst(obs0, m) ==
    LET t0 == SeqMin(obs0.time)
        tf == SeqMax(obs0.time)
        ex == Call("extract", t0, tf, ~obs0.spatial)
        de == Call("derive", t0, tf, ~obs0.spatial)
    IN  IF m.has = "none"
        THEN [raised |-> TRUE, calls |-> <<de, ex>>, mod |-> NoVar]
        ELSE [raised |-> FALSE, calls |-> <<de>>, mod |-> DerivedVariable(m, t0, tf)]

\* lines 142-168: extractTimeSeries over [t0, tf], with the site coordinates
\* when the observation is not gridded; whatever it raises, derivedVariable
\* with the same arguments, whose error is not caught
StageExtract(obs0, m) ==
    LET t0 == SeqMin(obs0.time)
        tf == SeqMax(obs0.time)
        ex == Call("extract", t0, tf, ~obs0.spatial)
        de == Call("derive", t0, tf, ~obs0.spatial)
    IN  IF m.has = "direct"
        THEN [raised |-> FALSE, calls |-> <<ex>>, mod |-> ExtractTimeSeries(m, t0, tf)]
        ELSE IF m.has = "derived"
        THEN [raised |-> FALSE, calls |-> <<ex, de>>, mod |-> DerivedVariable(m, t0, tf)]
        ELSE [raised |-> TRUE, calls |-> <<ex, de>>, mod |-> NoVar]

\* One call self.stageData(m).  self is the cached observation (self.data),
\* src the content of the source file, m the model.  The result holds the
\* outcome, the returned pair, self.data after the call (the clipping of
\* lines 176-177 assigns to the cached object itself), the calls made on
\* the collaborators and the number of rescaling passes.  The land mask of
\* lines 181-184 changes only the mask of mod.data, which a Variable here
\* does not carry.
StageData(self, src, m) ==
    LET obs0  == IF self.loaded THEN self.var ELSE src
        ld    == IF self.loaded THEN <<>> ELSE <<LoadCall>>
        c0    == Cache(TRUE, obs0)
    IN
    IF ~obs0.temporal THEN StageRes("NotTemporalVariable", NoVar, NoVar, c0, ld, 0)
    ELSE IF obs0.time = <<>> THEN StageRes("ValueError", NoVar, NoVar, c0, ld, 0)
    ELSE
    LET ex    == StageExtract(obs0, m)
        calls == ld \o ex.calls
        mod0  == ex.mod
    IN
    IF ex.raised THEN StageRes("VarNotInModel", NoVar, NoVar, c0, calls, 0)
    ELSE IF Len(obs0.time) # Len(mod0.time) /\ mod0.time = <<>>
        THEN StageRes("ValueError", NoVar, NoVar, c0, calls, 0)
    ELSE
    LET al    == StageAlign(obs0, mod0)
        c1    == Cache(TRUE, al.obs)
        v     == StageVerdict(al.obs, al.mod)
    IN
    IF v # "ok" THEN StageRes(v, NoVar, NoVar, c1, calls, 0)
    ELSE StageFinish(al.obs, al.mod, c1, calls)

\* ------------------------------------------------------------- catalogues
\* Observational source files a Confrontation may be built on.
ObsGood   == Var(TRUE, TRUE, <<0, 3000, 6000>>, <<-100, -100, -100>>, "kg m-2 s-1")

ObsNoTime == Var(FALSE, TRUE, <<>>, <<-100>>, "kg m-2 s-1")

ObsTiny   == Var(TRUE, TRUE, <<0, 3000, 6000, 9000>>, <<-900, -900, -900, -900>>, "kg m-2 s-1")

ObsMixed  == Var(TRUE, TRUE, <<0, 3000, 6000, 9000>>, <<-900, -100, -100, -100>>, "kg m-2 s-1")

ObsSite   == Var(TRUE, FALSE, <<0, 6000>>, <<-100, -100>>, "K")

ObsLate   == Var(TRUE, TRUE, <<5900000, 6000000>>, <<-500, -500>>, "g m-2 s-1")

ConfObs  == {ObsGood, ObsNoTime}

StageObs == {ObsGood, ObsNoTime, ObsTiny, ObsMixed, ObsSite, ObsLate}

\* The models.  "A", "B", "Benchmark" are the models the confrontations are
\* run on (m.name); the others exercise stageData.
ConfModels  == {"A", "B", "Benchmark"}

StageModels == {"A", "same", "short", "off", "p20", "p2001", "late2001", "far", "none", "derived",
                "derivedK", "wide", "after"}

ModelOf(name) ==
    CASE name = "A"         -> ModelRec("direct", TRUE,
                                 Var(TRUE, TRUE, <<0, 3000, 6000>>, <<-100, -100, -100>>, "kg m-2 s-1"))
      [] name = "B"         -> ModelRec("derived", FALSE,
                                 Var(TRUE, TRUE, <<0, 3000, 6000>>, <<-100, -100, -100>>, "g m-2 s-1"))
      [] name = "Benchmark" -> ModelRec("direct", TRUE,
                                 Var(TRUE, TRUE, <<0, 3000, 6000>>, <<-100, -100, -100>>, "kg m-2 s-1"))
      [] name = "same"      -> ModelRec("direct", TRUE,
                                 Var(TRUE, TRUE, <<0, 3000, 6000, 9000>>, <<-300, -300, -300, -300>>, "g m-2 d-1"))
      [] name = "short"     -> ModelRec("direct", TRUE,
                                 Var(TRUE, TRUE, <<3000, 6000>>, <<-300, -300>>, "kg m-2 s-1"))
      [] name = "off"       -> ModelRec("direct", TRUE,
                                 Var(TRUE, TRUE, <<4500, 7500>>, <<-300, -300>>, "kg m-2 s-1"))
      [] name = "p20"       -> ModelRec("direct", TRUE,
                                 Var(TRUE, FALSE, <<2000, 4000>>, <<-100, -100>>, "K"))
      [] name = "p2001"     -> ModelRec("direct", TRUE,
                                 Var(TRUE, FALSE, <<2001, 4000>>, <<-100, -100>>, "K"))
      [] name = "late2001"  -> ModelRec("direct", TRUE,
                                 Var(TRUE, TRUE, <<5902001, 5998000>>, <<-500, -500>>, "kg m-2 s-1"))
      [] name = "far"       -> ModelRec("direct", TRUE,
                                 Var(TRUE, TRUE, <<20000, 23000>>, <<-300, -300>>, "kg m-2 s-1"))
      [] name = "derived"   -> ModelRec("derived", TRUE,
                                 Var(TRUE, TRUE, <<0, 3000, 6000, 9000>>, <<-300, -300, -300, -300>>, "kg m-2 s-1"))
      [] name = "derivedK"  -> ModelRec("derived", TRUE,
                                 Var(TRUE, FALSE, <<1000, 5000>>, <<-100, -100>>, "K"))
      [] name = "wide"      -> Unwindowed(ModelRec("direct", TRUE,
                                 Var(TRUE, TRUE, <<3000, 6000, 9000, 12000, 15000>>,
                                     <<-100, -100, -100, -100, -100>>, "kg m-2 s-1")))
      [] name = "after"     -> Unwindowed(ModelRec("direct", TRUE,
                                 Var(TRUE, TRUE, <<7000, 8000>>, <<-100, -100>>, "kg m-2 s-1")))
      [] OTHER              -> ModelRec("none", TRUE, NoVar)

\* what model name offers for the quantity of confrontation c: model "B" has
\* nothing for the quantities of the dependents
ModelFor(name, c) ==
    IF c >= 1 /\ name = "B" THEN ModelRec("none", ModelOf(name).areas, NoVar) ELSE ModelOf(name)

\* ---------------------------------------------------------------- ilamblib
\* The result of a floating-point computation on integer arrays, kept exact:
\* n/d, or its square root, or one of the IEEE values a division by zero
\* gives (numpy warns and goes on).
Fin(n, d) == [kind |-> "fin", n |-> n, d |-> d, root |-> FALSE]

Root(n, d) == [kind |-> "fin", n |-> n, d |-> d, root |-> TRUE]

NaN == [kind |-> "nan", n |-> 0, d |-> 1, root |-> FALSE]

Inf == [kind |-> "inf", n |-> 0, d |-> 1, root |-> FALSE]

NegInf == [kind |-> "-inf", n |-> 0, d |-> 1, root |-> FALSE]

\* x / (n/d) for a finite x and integers n, d > 0 or n = 0
DivideBy(x, n, d) ==
    IF n = 0
    THEN IF x.n = 0 THEN NaN
         ELSE IF x.root \/ (x.n > 0) = (x.d > 0) THEN Inf ELSE NegInf
    ELSE IF x.root THEN Root(x.n * d * d, x.d * n * n)
    ELSE IF n > 0 THEN Fin(x.n * d, x.d * n) ELSE Fin(-(x.n * d), x.d * (-n))

\* reference.max() - reference.min()
Range(a) == SeqMax(a) - SeqMin(a)

\* what a library function gave: a value or the exception raised
Gave(v) == [status |-> "ok", value |-> v]

Raised(e) == [status |-> e, value |-> NaN]

\* the differences times the prediction
ErrorsTimesPrediction(reference, prediction) ==
    [k \in 1..Len(prediction) |-> (prediction[k] - reference[k]) * prediction[k]]

\* line 114: (prediction-reference)**2
SquaredErrors(reference, prediction) ==
    [k \in 1..Len(prediction) |->
        (prediction[k] - reference[k]) * (prediction[k] - reference[k])]

\* RootMeanSquaredError with the range of the prediction as normalizer
RootMeanSquaredErrorByPrediction(reference, prediction, normalize) ==
    IF Len(reference) # Len(prediction) THEN Raised("AssertionError")
    ELSE LET sq   == SquaredErrors(reference, prediction)
             rmse == Root(SeqSum(sq), Len(sq))
         IN  IF normalize = "maxmin" THEN Gave(DivideBy(rmse, Range(prediction), 1))
             ELSE Gave(rmse)

\* lines 113-116: sqrt(mean((prediction-reference)**2)), divided by the range
\* of the reference when normalize is "maxmin"
RootMeanSquaredError(reference, prediction, normalize) ==
    IF Len(reference) # Len(prediction) THEN Raised("AssertionError")
    ELSE LET sq   == SquaredErrors(reference, prediction)
             rmse == Root(SeqSum(sq), Len(sq))
         IN  IF normalize = "maxmin" THEN Gave(DivideBy(rmse, Range(reference), 1))
             ELSE Gave(rmse)

\* (1 - |bias/rmean|).clip(0,1) for bias = bn/n and rmean = rn/n
BiasScore(bn, rn, n) ==
    LET q == DivideBy(Fin(bn, n), rn, n)
    IN  IF q.kind = "nan" THEN NaN
        ELSE IF q.kind # "fin" THEN Fin(0, 1)
        ELSE IF Abs(q.n) >= Abs(q.d) THEN Fin(0, 1)
        ELSE Fin(Abs(q.d) - Abs(q.n), Abs(q.d))

\* Bias as the mean of the absolute differences
BiasOfMagnitudes(reference, prediction, normalize) ==
    IF Len(reference) # Len(prediction) THEN Raised("AssertionError")
    ELSE LET n    == Len(reference)
             bias == Fin(SeqSum([k \in 1..n |-> Abs(prediction[k] - reference[k])]), n)
         IN  IF normalize = "maxmin" THEN Gave(DivideBy(bias, Range(reference), 1))
             ELSE IF normalize = "score" THEN Gave(BiasScore(bias.n, SeqSum(reference), n))
             ELSE Gave(bias)

\* lines 164-170 with weights=None: pmean - rmean, divided by the range of
\* the reference ("maxmin") or turned into a score ("score")
Bias(reference, prediction, normalize) ==
    IF Len(reference) # Len(prediction) THEN Raised("AssertionError")
    ELSE LET n    == Len(reference)
             bias == Fin(SeqSum(prediction) - SeqSum(reference), n)
         IN  IF normalize = "maxmin" THEN Gave(DivideBy(bias, Range(reference), 1))
             ELSE IF normalize = "score" THEN Gave(BiasScore(bias.n, SeqSum(reference), n))
             ELSE Gave(bias)

\* the normalize keywords
Normalizations == {"none", "maxmin", "score"}

\* the arrays the functions are applied to: every non-empty integer array up
\* to the bounds, and the arrays of the documented examples
MaxLen == 2

MaxVal == 2

Examples == {<<1, 2, 3>>, <<4, 5, 6>>, <<1, 2, 1, 2>>, <<2, 1, 2, 1>>}

Arrays == UNION {[1..n -> -MaxVal..MaxVal] : n \in 1..MaxLen} \cup Examples

NoOut == [fn |-> "", normalize |-> "", res |-> Raised("none")]

\* -------------------------------------------- ilamblib, the time series
\* Times are kept in half-days, so that the middle of every month is a whole
\* number; a year is 730 half-days.
DAYS_PER_MONTH == <<31, 28, 31, 30, 31, 30, 31, 31, 30, 31, 30, 31>>

HalfDaysPerYear == 730

\* np.argmin(a): the first place of the least element (counted from 1)
ArgMin(a) ==
    CHOOSE k \in 1..Len(a) :
        /\ \A j \in 1..Len(a) : a[k] <= a[j]
        /\ \A j \in 1..(k - 1) : a[j] > a[k]

\* lines 199, 234: begin = np.argmin(t[:11]%365), counted from 0
YearBegin(t) ==
    ArgMin([k \in 1..Min2(11, Len(t)) |-> t[k] % HalfDaysPerYear]) - 1

\* lines 200, 235: end = begin+int(t[begin:].size/12.)*12
YearEnd(t, begin) == begin + ((Len(t) - begin) \div 12) * 12

\* a[begin:end].reshape((-1,12)): the rows, or no rows when the size of the
\* slice is zero or not a multiple of 12 (ValueError)
Reshape12(a, begin, end) ==
    LET slice == SubSeq(a, begin + 1, Min2(end, Len(a)))
    IN  IF Len(slice) = 0 \/ Len(slice) % 12 # 0
        THEN [ok |-> FALSE, rows |-> <<>>]
        ELSE [ok |-> TRUE,
              rows |-> [y \in 1..(Len(slice) \div 12) |-> SubSeq(slice, 12 * y - 11, 12 * y)]]

\* np.ma.average(row, weights=dpm/dpy)
WeightedAverage(row) == Fin(SeqSum([k \in 1..12 |-> DAYS_PER_MONTH[k] * row[k]]), 365)

\* lines 198-205
AnnualMean(t, var) ==
    IF Len(t) < 12 THEN Raised("AssertionError")
    ELSE LET begin == YearBegin(t)
             end   == YearEnd(t, begin)
             tr    == Reshape12(t, begin, end)
             vr    == Reshape12(var, begin, end)
         IN  IF ~tr.ok \/ ~vr.ok THEN Raised("ValueError")
             ELSE Gave([tmean |-> [y \in 1..Len(tr.rows) |-> WeightedAverage(tr.rows[y])],
                        vmean |-> [y \in 1..Len(vr.rows) |-> WeightedAverage(vr.rows[y])]])

\* lines 233-238
AnnualMinMax(t, var) ==
    IF Len(t) < 12 THEN Raised("AssertionError")
    ELSE LET begin == YearBegin(t)
             end   == YearEnd(t, begin)
             vr    == Reshape12(var, begin, end)
         IN  IF ~vr.ok THEN Raised("ValueError")
             ELSE Gave([vmin |-> [y \in 1..Len(vr.rows) |-> SeqMin(vr.rows[y])],
                        vmax |-> [y \in 1..Len(vr.rows) |-> SeqMax(vr.rows[y])]])

\* lines 297-301: the window around t[i], moved to lie inside [t[0], t[-1]];
\* window is in days, so window*0.5 days are window half-days
WindowAt(t, window, i) ==
    LET dl == Max2(t[1] - (t[i] - window), 0)
        l1 == t[i] - window + dl
        r1 == t[i] + window + dl
        dr == Max2(r1 - t[Len(t)], 0)
    IN  [tleft |-> l1 - dr, tright |-> r1 - dr]

\* line 302: condition = (t>=tleft)*(t<=tright)
Condition(t, window, i) ==
    {k \in 1..Len(t) : t[k] >= WindowAt(t, window, i).tleft /\ t[k] <= WindowAt(t, window, i).tright}

\* sum of f over a set of places
RECURSIVE SumOver(_, _)
SumOver(S, f) ==
    IF S = {} THEN 0
    ELSE LET k == CHOOSE x \in S : TRUE IN f[k] + SumOver(S \ {k}, f)

\* line 305: np.ma.polyfit(x/365.+1850,y,1)[0] on the samples at the places
\* S, the slope per year of the least-squares line: no sample is an error,
\* one sample gives the least-norm solution y/(2x), x = t/365+1850
PolyFitSlope(t, var, S) ==
    LET n   == Cardinality(S)
        sx  == SumOver(S, [k \in S |-> t[k]])
        sy  == SumOver(S, [k \in S |-> var[k]])
        sxx == SumOver(S, [k \in S |-> t[k] * t[k]])
        sxy == SumOver(S, [k \in S |-> t[k] * var[k]])
    IN  IF n = 0 THEN Raised("TypeError")
        ELSE IF n = 1 THEN Gave(Fin(365 * sy, sx + 1850 * HalfDaysPerYear))
        ELSE Gave(Fin(HalfDaysPerYear * (n * sxy - sx * sy), n * sxx - sx * sx))

\* lines 303-305: np.ma.masked_where masks the samples where the condition
\* holds, and the fit takes the samples that are not masked
Fitted(t, window, i) == (1..Len(t)) \ Condition(t, window, i)

\* lines 295-306; masked_where raises IndexError when the shapes of the
\* condition and of var differ
WindowedTrend(t, var, window) ==
    LET fits == [i \in 1..Len(t) |-> PolyFitSlope(t, var, Fitted(t, window, i))]
    IN  IF Len(t) = 0 THEN Gave(<<>>)
        ELSE IF Len(var) # Len(t) THEN Raised("IndexError")
        ELSE IF \E i \in 1..Len(t) : fits[i].status # "ok"
             THEN Raised((fits[CHOOSE i \in 1..Len(t) : fits[i].status # "ok"]).status)
        ELSE Gave([i \in 1..Len(t) |-> fits[i].value])

\* the middle of each month of a year of 365 days (the t of the examples of
\* lines 186-189 and 221-224), in half-days
MidMonth == <<31, 90, 149, 210, 271, 332, 393, 455, 516, 577, 638, 699>>

\* a monthly series of n samples whose first sample is in month first (0 is
\* January)
Monthly(first, n) ==
    [k \in 1..n |-> ((first + k - 1) \div 12) * HalfDaysPerYear + MidMonth[((first + k - 1) % 12) + 1]]

\* the longest monthly series
MaxSamples == 24

\* what is measured: a value that tells the samples apart
Measured(n) == [k \in 1..n |-> ((k * k) % 7) + k]

NoArgs == [fn |-> "", t |-> <<>>, var |-> <<>>, window |-> 0]

\* calls on a monthly series that starts in any month, of 11 samples and
\* more, with a var of the length of t, one shorter or one longer
AnnualCalls ==
    {[fn |-> f, t |-> Monthly(first, n), var |-> Measured(n + d), window |-> 0] :
        f \in {"AnnualMean", "AnnualMinMax"}, first \in 0..11, n \in 11..MaxSamples, d \in -1..1}

\* the longest series given to WindowedTrend
MaxTrendLen == 5

\* times of samples a day apart, and at uneven distances
TrendTimes == {SubSeq(s, 1, n) : s \in {<<0, 2, 4, 6, 8, 10, 12>>, <<0, 2, 6, 8, 12, 14, 18>>},
                                 n \in 2..MaxTrendLen}

\* calls of WindowedTrend with windows of 2 and 6 days and one wider than
\* every series
TrendCalls ==
    {[fn |-> "WindowedTrend", t |-> s, var |-> v, window |-> w] :
        s \in TrendTimes, v \in UNION {[1..n -> 0..1] : n \in 1..MaxTrendLen}, w \in {2, 6, 100}}

\* ------------------------------------------------------ computeOverallScore
\* Names of stored variables are kept as the tokens between their "_".
\* Python's "a in b" on the tokens that occur: equality, and the proper
\* substrings among them.
Inside == {<<"amazon", "amazonia">>, <<"over", "overall">>}

SubStr(a, b) == a = b \/ <<a, b>> \in Inside

\* s in v, for a string s without "_"
Contains(v, s) == \E k \in 1..Len(v) : SubStr(s, v[k])

\* "_".join(v.split("_")[:2])
KindOf(v) == SubSeq(v, 1, Min2(2, Len(v)))

\* lines 97-101: self.weight
WeightKeys == {<<"bias", "score">>, <<"rmse", "score">>, <<"shift", "score">>,
               <<"iav", "score">>, <<"sd", "score">>}

Weight(kind) == IF kind = <<"rmse", "score">> THEN 2 ELSE 1

\* line 364: "overall_score_over_%s" % region
OverallName(region) == <<"overall", "score", "over", region>>

\* a stored value n/d, or n/1e-12
Value(n, d, eps) == [n |-> n, d |-> d, eps |-> eps]

Entry(name, value) == [name |-> name, value |-> value]

\* line 363: overall_score / max(sum_of_weights, 1e-12); the weights are
\* whole numbers, so the sum is at least 1 or it is 0
Quotient(num, sumw) == IF sumw >= 1 THEN Value(num, sumw, FALSE) ELSE Value(num, 1, TRUE)

\* line 353: the names with "score" and without "overall" in them
ScoreVariables(entries) ==
    SelectSeq(entries, LAMBDA e : Contains(e.name, "score") /\ ~Contains(e.name, "overall"))

\* lines 355-363: the two sums over the variables of one region
OverallValue(variables, region) ==
    LET use(e) == Contains(e.name, region) /\ KindOf(e.name) \in WeightKeys
        num    == SeqSum([k \in 1..Len(variables) |->
                     IF use(variables[k]) THEN Weight(KindOf(variables[k].name)) * variables[k].value.n
                     ELSE 0])
        sumw   == SeqSum([k \in 1..Len(variables) |->
                     IF use(variables[k]) THEN Weight(KindOf(variables[k].name)) ELSE 0])
    IN  Quotient(num, sumw)

\* lines 365-368 without the test: a new variable at every call
StoreAppends(entries, name, value) == Append(entries, Entry(name, value))

\* lines 365-368: assign to the variable of that name, or create it
Store(entries, name, value) ==
    IF \E k \in 1..Len(entries) : entries[k].name = name
    THEN [k \in 1..Len(entries) |->
             IF entries[k].name = name THEN Entry(name, value) ELSE entries[k]]
    ELSE Append(entries, Entry(name, value))

\* lines 354-368: the loop over self.regions
RECURSIVE ScoreRegions(_, _, _, _)
ScoreRegions(entries, variables, regs, k) ==
    IF k > Len(regs) THEN entries
    ELSE ScoreRegions(Store(entries, OverallName(regs[k]), OverallValue(variables, regs[k])),
                      variables, regs, k + 1)

\* lines 348-369: nothing when the result set cannot be opened
ComputeOverallScore(ds, regs) ==
    IF ~ds.exists THEN ds
    ELSE [ds EXCEPT !.vars = ScoreRegions(ds.vars, ScoreVariables(ds.vars), regs, 1)]

NoDataset == [exists |-> FALSE, vars |-> <<>>]

\* self.regions: the default, the two regions of the GPP confrontation, and
\* two regions of which one name is inside the other
RegionLists == {<<"global">>, <<"global", "amazon">>, <<"amazon", "amazonia">>}

\* what the analysis may have stored for a region: three scores, one of a
\* kind the weights do not know, and a metric that is no score
MetricKinds == <<<<"bias", "score">>, <<"rmse", "score">>, <<"foo", "score">>, <<"bias", "of">>>>

RegionNames == <<"global", "amazon", "amazonia">>

\* the name of a metric of a kind over a region
MetricName(kind, region) == kind \o <<"over", region>>

\* the metrics that may be stored, each with a value of its own (percent)
Candidates ==
    [k \in 1..(Len(MetricKinds) * Len(RegionNames)) |->
        Entry(MetricName(MetricKinds[((k - 1) \div Len(RegionNames)) + 1],
                         RegionNames[((k - 1) % Len(RegionNames)) + 1]),
              Value(104 - 8 * k, 1, FALSE))]

\* the result sets a confront call on regions regs may leave
Datasets(regs) ==
    LET own == {k \in 1..Len(Candidates) :
                   \E j \in 1..Len(regs) : Candidates[k].name[Len(Candidates[k].name)] = regs[j]}
    IN  {NoDataset} \cup
        {[exists |-> TRUE, vars |-> SelectSeq(Candidates, LAMBDA e : \E k \in S : Candidates[k] = e)] :
            S \in SUBSET own}

\* calls of computeOverallScore on one result set
MaxScoreCalls == 2

\* ------------------------------------------------------------------ state
VARIABLES
    alive,          \* the Confrontation instances constructed so far
    master,         \* self.master of each instance
    srcdata,        \* content of the source file of the confrontation (0) and of each dependent
    relationships,  \* self.relationships: the dependents, in order
    data,           \* self.data of each instance's confrontation (0) and of its dependents
    pc,             \* where each instance is in confront
    cur,            \* the model of the confront call in progress (or last made), and the dependent reached
    outcome,        \* how the last confront call of each instance ended
    handles,        \* the result sets each instance holds open for writing
    files,          \* the result sets in output_path, by the m.name part of the file name
    benchCreates,   \* how often each instance created the benchmark result set
    ncalls,         \* confront calls started
    lastRead,       \* how the last read by a non-master modelPlots found the benchmark result set
    gpp,            \* GPPFluxnetGlobalMTE: model, outcome and steps of its last confront
    lastStage,      \* the last stageData call made on its own, and what it returned
    prevStage,      \* the one before
    ref,            \* ilamblib: the reference array
    pred,           \* ilamblib: the prediction array
    out,            \* ilamblib: the last function applied and what it gave
    args,           \* ilamblib: the function, t, var and window of a call on a time series
    regions,        \* computeOverallScore: self.regions
    dataset,        \* computeOverallScore: the per-model result set
    prevDataset,    \* computeOverallScore: the result set before the last call
    nscore,         \* computeOverallScore: calls made on the result set
    lastScore       \* the state of the result set the last overall score was stored in

libVars == <<ref, pred, out, args>>

scoreVars == <<regions, dataset, prevDataset, nscore, lastScore>>

vars == <<alive, master, srcdata, relationships, data, pc, cur, outcome, handles,
          files, benchCreates, ncalls, lastRead, gpp, lastStage, prevStage, libVars, scoreVars>>

confVars == <<alive, master, srcdata, relationships, pc, cur, outcome, handles,
              files, benchCreates, ncalls, lastRead, gpp>>

\* a result set file: absent, or created with the attributes of one writer
\* and the sections written so far
NoFile == [exists |-> FALSE, name |-> "", sections |-> {}]

NoStage == [called |-> FALSE, m |-> "", res |-> StageRes("none", NoVar, NoVar, NoCache, <<>>, 0)]

NoGpp == [m |-> "", outcome |-> "none", steps |-> <<>>]

\* the instances and the output directory before anything is constructed
InitConf ==
    /\ alive = {}
    /\ master = [i \in Insts |-> FALSE]
    /\ data = [i \in Insts |-> [c \in Confs |-> NoCache]]
    /\ pc = [i \in Insts |-> "idle"]
    /\ cur = [i \in Insts |-> [m |-> "", dep |-> 0]]
    /\ outcome = [i \in Insts |-> "none"]
    /\ handles = [i \in Insts |-> {}]
    /\ files = [f \in ConfModels |-> NoFile]
    /\ benchCreates = [i \in Insts |-> 0]
    /\ ncalls = 0
    /\ lastRead = "none"
    /\ gpp = NoGpp
    /\ lastStage = NoStage
    /\ prevStage = NoStage

\* no library function applied
InitLib ==
    /\ ref = <<>>
    /\ pred = <<>>
    /\ out = NoOut
    /\ args = NoArgs

\* no overall score computed
InitNoScore ==
    /\ regions = <<>>
    /\ dataset = NoDataset
    /\ prevDataset = NoDataset
    /\ nscore = 0
    /\ lastScore = "none"

InitCommon == InitConf /\ InitLib /\ InitNoScore

\* ---------------------------------------------------- stageData on its own
\* A Confrontation (instance 1) on any of the source files, staged against
\* any sequence of models.
InitStage ==
    /\ InitCommon
    /\ srcdata \in [Confs -> StageObs]
    /\ \A c \in Deps : srcdata[c] = ObsGood
    /\ relationships = <<>>

StageCall(m) ==
    LET res == StageData(data[1][0], srcdata[0], ModelOf(m))
    IN  /\ data' = [data EXCEPT ![1][0] = res.cache]
        /\ lastStage' = [called |-> TRUE, m |-> m, res |-> res]
        /\ prevStage' = lastStage
        /\ UNCHANGED <<confVars, libVars, scoreVars>>

NextStage == \E m \in StageModels : StageCall(m)

SpecStage == InitStage /\ [][NextStage]_vars

\* ------------------------------------------------- Confrontation.confront
\* "%s/%s_Benchmark.nc": the file name of the benchmark result set; the
\* per-model result set of m is "%s/%s_%s.nc" with m.name in the last place.
BenchFile == "Benchmark"

Fluxrate == <<"fluxrate", 0>>

RelSection(c) == <<"relationship", c>>

NewFile(name) == [exists |-> TRUE, name |-> name, sections |-> {}]

\* what an analysis routine may raise; confront passes it on as it is
AnalysisRaises == {"KeyError"}

\* __init__ on an existing source file (MisplacedData otherwise, and no
\* instance): every instance starts as master, with no data cached.
\* Instances are numbered in the order of their construction.
Construct(i) ==
    /\ i \notin alive
    /\ \A j \in 1..(i-1) : j \in alive
    /\ alive' = alive \cup {i}
    /\ master' = [master EXCEPT ![i] = TRUE]
    /\ data' = [data EXCEPT ![i] = [c \in Confs |-> NoCache]]
    /\ UNCHANGED <<srcdata, relationships, pc, cur, outcome, handles, files,
                   benchCreates, ncalls, lastRead, gpp, lastStage, prevStage, libVars, scoreVars>>

\* the driver assigns the public attribute master between operations
SetMaster(i, b) ==
    /\ i \in alive
    /\ pc[i] = "idle"
    /\ master[i] # b
    /\ master' = [master EXCEPT ![i] = b]
    /\ UNCHANGED <<alive, srcdata, relationships, data, pc, cur, outcome, handles,
                   files, benchCreates, ncalls, lastRead, gpp, lastStage, prevStage, libVars, scoreVars>>

\* confront, line 213: obs,mod = self.stageData(m)
ConfrontStage(i, m) ==
    /\ i \in alive
    /\ pc[i] = "idle"
    /\ ncalls < MaxConfronts
    /\ LET res == StageData(data[i][0], srcdata[0], ModelFor(m, 0))
       IN  /\ data' = [data EXCEPT ![i][0] = res.cache]
           /\ pc' = [pc EXCEPT ![i] = IF res.status = "ok" THEN "staged" ELSE "idle"]
           /\ outcome' = [outcome EXCEPT ![i] = IF res.status = "ok" THEN "running" ELSE res.status]
    /\ cur' = [cur EXCEPT ![i] = [m |-> m, dep |-> 0]]
    /\ handles' = [handles EXCEPT ![i] = {}]
    /\ ncalls' = ncalls + 1
    /\ UNCHANGED <<alive, master, srcdata, relationships, files, benchCreates, lastRead,
                   gpp, lastStage, prevStage, libVars, scoreVars>>

\* confront, lines 218-224: both result sets are opened with mode="w"
ConfrontOpen(i) ==
    /\ pc[i] = "staged"
    /\ LET m  == cur[i].m
           f1 == [files EXCEPT ![m] = NewFile(m)]
       IN  /\ files' = IF master[i] THEN [f1 EXCEPT ![BenchFile] = NewFile("Benchmark")] ELSE f1
           /\ handles' = [handles EXCEPT ![i] = IF master[i] THEN {m, BenchFile} ELSE {m}]
    /\ benchCreates' = [benchCreates EXCEPT ![i] = IF master[i] THEN @ + 1 ELSE @]
    /\ pc' = [pc EXCEPT ![i] = "opened"]
    /\ UNCHANGED <<alive, master, srcdata, relationships, data, cur, outcome, ncalls,
                   lastRead, gpp, lastStage, prevStage, libVars, scoreVars>>

\* sections s written through the handles hs of one instance
WriteSections(fs, hs, s) ==
    [f \in DOMAIN fs |-> IF f \in hs THEN [fs[f] EXCEPT !.sections = @ \cup s] ELSE fs[f]]

\* confront, lines 228-229: il.AnalysisFluxrate(obs,mod,dataset=results,
\* benchmark_dataset=benchmark_results,...); lines 230-233 are comments
ConfrontFluxrate(i) ==
    /\ pc[i] = "opened"
    /\ \/ /\ files' = WriteSections(files, handles[i], {Fluxrate})
          /\ IF relationships = <<>>
             THEN pc' = [pc EXCEPT ![i] = "close"] /\ cur' = cur
             ELSE pc' = [pc EXCEPT ![i] = "rel"] /\ cur' = [cur EXCEPT ![i].dep = 1]
          /\ UNCHANGED outcome
       \/ \E e \in AnalysisRaises :
          /\ outcome' = [outcome EXCEPT ![i] = e]
          /\ pc' = [pc EXCEPT ![i] = "idle"]
          /\ UNCHANGED <<files, cur>>
    /\ UNCHANGED <<alive, master, srcdata, relationships, data, handles, benchCreates,
                   ncalls, lastRead, gpp, lastStage, prevStage, libVars, scoreVars>>

\* confront, lines 242-253: one pass of the loop over self.relationships
ConfrontRelationship(i) ==
    /\ pc[i] = "rel"
    /\ LET c    == relationships[cur[i].dep]
           res  == StageData(data[i][c], srcdata[c], ModelFor(cur[i].m, c))
           last == cur[i].dep = Len(relationships)
       IN  /\ data' = [data EXCEPT ![i][c] = res.cache]
           /\ \/ /\ res.status # "ok"
                 /\ outcome' = [outcome EXCEPT ![i] = res.status]
                 /\ pc' = [pc EXCEPT ![i] = "idle"]
                 /\ UNCHANGED <<files, cur>>
              \/ /\ res.status = "ok"
                 /\ master[i]
                 /\ \E e \in AnalysisRaises : outcome' = [outcome EXCEPT ![i] = e]
                 /\ pc' = [pc EXCEPT ![i] = "idle"]
                 /\ UNCHANGED <<files, cur>>
              \/ /\ res.status = "ok"
                 /\ \E e \in AnalysisRaises : outcome' = [outcome EXCEPT ![i] = e]
                 /\ files' = WriteSections(files, IF master[i] THEN {BenchFile} ELSE {},
                                           {RelSection(c)})
                 /\ pc' = [pc EXCEPT ![i] = "idle"]
                 /\ UNCHANGED cur
              \/ /\ res.status = "ok"
                 /\ files' = WriteSections(files, handles[i], {RelSection(c)})
                 /\ pc' = [pc EXCEPT ![i] = IF last THEN "close" ELSE "rel"]
                 /\ cur' = [cur EXCEPT ![i].dep = IF last THEN @ ELSE @ + 1]
                 /\ UNCHANGED outcome
    /\ UNCHANGED <<alive, master, srcdata, relationships, handles, benchCreates, ncalls,
                   lastRead, gpp, lastStage, prevStage, libVars, scoreVars>>

\* confront without line 257: the benchmark result set is never closed
ConfrontCloseKeepsBenchmark(i) ==
    /\ pc[i] = "close"
    /\ handles' = [handles EXCEPT ![i] = @ \ {cur[i].m}]
    /\ outcome' = [outcome EXCEPT ![i] = "ok"]
    /\ pc' = [pc EXCEPT ![i] = "idle"]
    /\ UNCHANGED <<alive, master, srcdata, relationships, data, cur, files, benchCreates,
                   ncalls, lastRead, gpp, lastStage, prevStage, libVars, scoreVars>>

\* confront, lines 256-257: results.close(); if self.master: benchmark_results.close()
ConfrontClose(i) ==
    /\ pc[i] = "close"
    /\ handles' = [handles EXCEPT ![i] = IF master[i] THEN @ \ {cur[i].m, BenchFile}
                                                     ELSE @ \ {cur[i].m}]
    /\ outcome' = [outcome EXCEPT ![i] = "ok"]
    /\ pc' = [pc EXCEPT ![i] = "idle"]
    /\ UNCHANGED <<alive, master, srcdata, relationships, data, cur, files, benchCreates,
                   ncalls, lastRead, gpp, lastStage, prevStage, libVars, scoreVars>>

\* ----------------------------------------------- Confrontation.modelPlots
\* "Temperature" in c.longname or "Precipitation" in c.longname
DepLongname(c) ==
    CASE c = 1 -> "Temperature"
      [] c = 2 -> "Precipitation"
      [] OTHER -> "Other"

InWhittaker(c) == DepLongname(c) \in {"Temperature", "Precipitation"}

\* lines 619-640: c.stageData(m) for the dependents of the Whittaker
\* diagram, in order, stopping at the first that raises
RECURSIVE PlotStage(_, _, _)
PlotStage(d, m, k) ==
    IF k > Len(relationships) THEN d
    ELSE LET c   == relationships[k]
             res == StageData(d[c], srcdata[c], ModelFor(m, c))
         IN  IF ~InWhittaker(c) THEN PlotStage(d, m, k + 1)
             ELSE IF res.status # "ok" THEN [d EXCEPT ![c] = res.cache]
             ELSE PlotStage([d EXCEPT ![c] = res.cache], m, k + 1)

\* the sections of a result set whose confront ran to its end
AllSections == {Fluxrate} \cup {RelSection(relationships[k]) : k \in 1..Len(relationships)}

\* the benchmark result set as a reader finds it
BenchState ==
    IF ~files[BenchFile].exists THEN "missing"
    ELSE IF \E j \in Insts : BenchFile \in handles[j] THEN "open"
    ELSE IF files[BenchFile].sections # AllSections THEN "partial"
    ELSE "complete"

\* modelPlots(m).  It returns at line 468 when the per-model result set
\* cannot be opened (no step then).  The benchmark result set is read at
\* line 531 by every instance, for the time series of the fluxrate
\* analysis, and at lines 516 and 560 by a master.  A read that does not
\* find the file, or the variable in it, raises, and modelPlots ends there;
\* otherwise the dependents of the Whittaker diagram are staged.
ModelPlots(i, m) ==
    /\ i \in alive
    /\ pc[i] = "idle"
    /\ files[m].exists
    /\ LET series == Fluxrate \in files[m].sections
           reads  == series \/ master[i]
           raises == \/ reads /\ ~files[BenchFile].exists
                     \/ series /\ Fluxrate \notin files[BenchFile].sections
       IN  /\ lastRead' = IF reads /\ ~master[i] THEN BenchState ELSE lastRead
           /\ data' = IF raises THEN data
                      ELSE [data EXCEPT ![i] = PlotStage(data[i], m, 1)]
    /\ UNCHANGED <<alive, master, srcdata, relationships, pc, cur, outcome, handles,
                   files, benchCreates, ncalls, gpp, lastStage, prevStage, libVars, scoreVars>>

\* ------------------------------------------- GPPFluxnetGlobalMTE.confront
\* confront of the GPP confrontation, one of the confront calls of the run,
\* made while no other is in progress: the outcome and the steps taken
GPPConfront(m) ==
    /\ ncalls < MaxConfronts
    /\ \A i \in Insts : pc[i] = "idle"
    /\ ncalls' = ncalls + 1
    /\ IF ~ModelOf(m).areas
       THEN gpp' = [m |-> m, outcome |-> "AreasNotInModel", steps |-> <<>>]
       ELSE IF ModelOf(m).has # "direct"
       THEN gpp' = [m |-> m, outcome |-> "VarNotInModel", steps |-> <<"load", "extract">>]
       ELSE \/ gpp' = [m |-> m, outcome |-> "ok", steps |-> <<"load", "extract", "open", "close">>]
            \/ \E e \in AnalysisRaises :
                   gpp' = [m |-> m, outcome |-> e, steps |-> <<"load", "extract", "open">>]
    /\ UNCHANGED <<alive, master, srcdata, relationships, data, pc, cur, outcome,
                   handles, files, benchCreates, lastRead, lastStage, prevStage, libVars, scoreVars>>

\* ------------------------------------------------------- the specification
Init ==
    /\ InitCommon
    /\ srcdata \in [Confs -> ConfObs]
    /\ \A c \in Deps : srcdata[c] = ObsGood
    /\ relationships \in {[k \in 1..n |-> k] : n \in 0..NumDeps}

Next ==
    \/ \E i \in Insts : Construct(i)
    \/ \E i \in Insts : \E b \in BOOLEAN : SetMaster(i, b)
    \/ \E i \in Insts : \E m \in ConfModels : ConfrontStage(i, m)
    \/ \E i \in Insts : ConfrontOpen(i)
    \/ \E i \in Insts : ConfrontFluxrate(i)
    \/ \E i \in Insts : ConfrontRelationship(i)
    \/ \E i \in Insts : ConfrontClose(i)
    \/ \E i \in Insts : \E m \in ConfModels : ModelPlots(i, m)
    \/ \E m \in ConfModels : GPPConfront(m)

Spec == Init /\ [][Next]_vars

\* ------------------------------------------------------ claims on stageData
Returned(st) == st.called /\ st.res.status = "ok"

\* C10: every stageData call that returns normally returns a pair whose time
\* axes have the same number of samples and whose units are equal, the
\* observation's unit being the one left by the rescaling passes.
C10_StagedPairComparable ==
    Returned(lastStage) =>
        /\ Len(lastStage.res.obs.time) = Len(lastStage.res.mod.time)
        /\ lastStage.res.mod.unit = lastStage.res.obs.unit
        /\ lastStage.res.obs.unit = Normalize(lastStage.res.cache.var, 0).var.unit

\* a normal return in which the series were clipped, the observation was
\* rescaled twice and the model data came in another unit
C10_Witness ==
    /\ Returned(lastStage)
    /\ Len(lastStage.res.obs.time) < Len(srcdata[0].time)
    /\ lastStage.res.passes = 2
    /\ ModelOf(lastStage.m).var.unit # lastStage.res.obs.unit

\* C8: for equal-length time axes, whatever their magnitude: if every pair
\* of corresponding time stamps differs by exactly 20 days the alignment
\* check passes, and if some pair differs by 20.01 days stageData raises
\* VarsNotComparable.  (Stated of the first stageData call of a
\* Confrontation, whose axes are those of the source file and of the model.)
C8_ToleranceBoundary ==
    (lastStage.called /\ ~prevStage.called /\ srcdata[0].temporal
        /\ ModelOf(lastStage.m).has # "none") =>
    LET o == srcdata[0].time
        t == ExtractTimeSeries(ModelOf(lastStage.m), SeqMin(o), SeqMax(o)).time
    IN  Len(o) = Len(t) =>
        /\ (\A k \in 1..Len(o) : Abs(o[k] - t[k]) = 2000)
               => lastStage.res.status # "VarsNotComparable"
        /\ (\E k \in 1..Len(o) : Abs(o[k] - t[k]) = 2001)
               => lastStage.res.status = "VarsNotComparable"

\* C9: staging is idempotent: two stageData calls in a row with the same
\* model return identical (obs, mod) pairs, also when the first call clipped
\* the time axes or rescaled the observation.
C9_StagingIdempotent ==
    (prevStage.called /\ lastStage.called /\ prevStage.m = lastStage.m /\ Returned(prevStage)) =>
        /\ Returned(lastStage)
        /\ lastStage.res.obs = prevStage.res.obs
        /\ lastStage.res.mod = prevStage.res.mod

\* -------------------------------------------------------- claims on confront
\* C1: one master Confrontation creates the benchmark result set once, however
\* many models it confronts; later confront calls do not create it again.
C1_BenchmarkCreatedOnce == \A i \in Insts : benchCreates[i] <= 1

\* C2: of the instances constructed for one confrontation exactly one is
\* master, so that never two of them can create or write the benchmark result
\* set.  (Stated as its safety half: never two masters.)
C2_SingleMaster == Cardinality({i \in alive : master[i]}) <= 1

ConfrontStep(i) == pc[i] # pc'[i] \/ cur[i] # cur'[i]

\* C4: no step of the confront of a non-master instance creates or writes the
\* benchmark result set, and it writes no result set but that of its model.
C4_NonMasterLeavesBenchmark ==
    [][\A i \in Insts : (~master[i] /\ ConfrontStep(i)) =>
          /\ files'[BenchFile] = files[BenchFile]
          /\ benchCreates' = benchCreates
          /\ \A f \in ConfModels \ {cur'[i].m} : files'[f] = files[f]]_vars

\* C5: when an analysis routine has failed in confront(m), no result set of m
\* remains and the error that surfaces is AnalysisError.
C5_AnalysisFailureCleansUp ==
    \A i \in Insts : (pc[i] = "idle" /\ outcome[i] \in AnalysisRaises \cup {"AnalysisError"}) =>
        /\ ~files[cur[i].m].exists
        /\ outcome[i] = "AnalysisError"

\* C6: confront on a model without cell areas or land fractions raises
\* AreasNotInModel before anything else is done, in Confrontation.confront
\* and in GPPFluxnetGlobalMTE.confront.
C6_AreasCheckedFirst ==
    /\ \A i \in Insts : (cur[i].m # "" /\ ~ModelOf(cur[i].m).areas) =>
           pc[i] = "idle" /\ outcome[i] = "AreasNotInModel"
    /\ (gpp.m # "" /\ ~ModelOf(gpp.m).areas) =>
           gpp.outcome = "AreasNotInModel" /\ gpp.steps = <<>>

StagingErrors == {"NotTemporalVariable", "VarNotOnTimeScale", "VarsNotComparable",
                  "UnknownUnit", "VarNotInModel"}

\* C7: when staging has failed in confront(m), for the observation or for a
\* dependent, confront has stopped with that error, holds no result set open
\* and leaves no partially written result set of m.
C7_StagingFailureLeavesNothing ==
    \A i \in Insts : (pc[i] = "idle" /\ outcome[i] \in StagingErrors) =>
        /\ handles[i] = {}
        /\ files[cur[i].m].exists => files[cur[i].m].sections = AllSections

\* ------------------------------------------------- ilamblib on its own
\* Bias and RootMeanSquaredError applied to any pair of arrays.
InitMetrics ==
    /\ InitConf
    /\ InitNoScore
    /\ srcdata = [c \in Confs |-> ObsGood]
    /\ relationships = <<>>
    /\ ref \in Arrays
    /\ pred \in Arrays
    /\ out = NoOut
    /\ args = NoArgs

CallBias(nz) ==
    /\ out' = [fn |-> "bias", normalize |-> nz, res |-> Bias(ref, pred, nz)]
    /\ UNCHANGED <<confVars, data, lastStage, prevStage, ref, pred, args, scoreVars>>

CallRootMeanSquaredError(nz) ==
    /\ out' = [fn |-> "rmse", normalize |-> nz, res |-> RootMeanSquaredError(ref, pred, nz)]
    /\ UNCHANGED <<confVars, data, lastStage, prevStage, ref, pred, args, scoreVars>>

NextMetrics ==
    \/ \E nz \in Normalizations : CallBias(nz)
    \/ \E nz \in Normalizations : CallRootMeanSquaredError(nz)

SpecMetrics == InitMetrics /\ [][NextMetrics]_vars

\* ------------------------------------------ ilamblib, the time series alone
\* One call of AnnualMean, AnnualMinMax or WindowedTrend on any of the
\* series.
InitSeries ==
    /\ InitConf
    /\ InitNoScore
    /\ srcdata = [c \in Confs |-> ObsGood]
    /\ relationships = <<>>
    /\ ref = <<>>
    /\ pred = <<>>
    /\ out = NoOut
    /\ args \in AnnualCalls \cup {c \in TrendCalls : Len(c.var) \in {Len(c.t) - 1, Len(c.t)}}

CallAnnualMean ==
    /\ args.fn = "AnnualMean"
    /\ out' = [fn |-> args.fn, normalize |-> "", res |-> AnnualMean(args.t, args.var)]
    /\ UNCHANGED <<confVars, data, lastStage, prevStage, ref, pred, args, scoreVars>>

CallAnnualMinMax ==
    /\ args.fn = "AnnualMinMax"
    /\ out' = [fn |-> args.fn, normalize |-> "", res |-> AnnualMinMax(args.t, args.var)]
    /\ UNCHANGED <<confVars, data, lastStage, prevStage, ref, pred, args, scoreVars>>

CallWindowedTrend ==
    /\ args.fn = "WindowedTrend"
    /\ out' = [fn |-> args.fn, normalize |-> "",
               res |-> WindowedTrend(args.t, args.var, args.window)]
    /\ UNCHANGED <<confVars, data, lastStage, prevStage, ref, pred, args, scoreVars>>

NextSeries ==
    \/ CallAnnualMean
    \/ CallAnnualMinMax
    \/ CallWindowedTrend

SpecSeries == InitSeries /\ [][NextSeries]_vars

\* ------------------------------------------- computeOverallScore on its own
\* computeOverallScore called again and again on any result set a confront
\* call may have left.
InitScore ==
    /\ InitConf
    /\ InitLib
    /\ srcdata = [c \in Confs |-> ObsGood]
    /\ relationships = <<>>
    /\ regions \in RegionLists
    /\ dataset \in Datasets(regions)
    /\ prevDataset = NoDataset
    /\ nscore = 0
    /\ lastScore = "none"

ScoreCall ==
    /\ nscore < MaxScoreCalls
    /\ nscore' = nscore + 1
    /\ prevDataset' = dataset
    /\ dataset' = ComputeOverallScore(dataset, regions)
    /\ UNCHANGED <<confVars, data, lastStage, prevStage, libVars, regions, lastScore>>

NextScore == ScoreCall

SpecScore == InitScore /\ [][NextScore]_vars

\* ------------------------------------- confront and computeOverallScore
\* the variable computeOverallScore adds to a result set
Overall == <<"overall", 0>>

\* a result set as computeOverallScore finds it
ResultState(m) ==
    IF \E j \in Insts : pc[j] # "idle" /\ m \in handles[j] THEN "in progress"
    ELSE IF ~(AllSections \subseteq files[m].sections) THEN "aborted"
    ELSE "complete"

\* computeOverallScore(m), lines 347-369: it returns when the result set
\* cannot be opened (no step then), and stores the overall scores otherwise
OverallScore(i, m) ==
    /\ i \in alive
    /\ pc[i] = "idle"
    /\ files[m].exists
    /\ files' = [files EXCEPT ![m].sections = @ \cup {Overall}]
    /\ lastScore' = ResultState(m)
    /\ UNCHANGED <<alive, master, srcdata, relationships, data, pc, cur, outcome, handles,
                   benchCreates, ncalls, lastRead, gpp, lastStage, prevStage, libVars,
                   regions, dataset, prevDataset, nscore>>

NextLife ==
    \/ \E i \in Insts : Construct(i)
    \/ \E i \in Insts : \E m \in ConfModels : ConfrontStage(i, m)
    \/ \E i \in Insts : ConfrontOpen(i)
    \/ \E i \in Insts : ConfrontFluxrate(i)
    \/ \E i \in Insts : ConfrontRelationship(i)
    \/ \E i \in Insts : ConfrontClose(i)
    \/ \E i \in Insts : \E m \in ConfModels : OverallScore(i, m)

SpecLife == Init /\ [][NextLife]_vars

\* ----------------------------------------- claims on computeOverallScore
\* the stored score metrics of a region: the entries named <kind>_score_over_<region>
RegionScores(r) ==
    {k \in 1..Len(prevDataset.vars) :
        LET v == prevDataset.vars[k].name
        IN  Len(v) = 4 /\ v[2] = "score" /\ v[1] # "overall" /\ v[4] = r}

\* those of a kind the weight map knows
Weighted(r) == {k \in RegionScores(r) : KindOf(prevDataset.vars[k].name) \in WeightKeys}

\* the overall scores stored for region r
Overalls(r) == {k \in 1..Len(dataset.vars) : dataset.vars[k].name = OverallName(r)}

\* computeOverallScore has run on a result set that could be opened
Scored == nscore >= 1 /\ dataset.exists

\* C13: for every region the value stored as overall_score_over_<region> is
\* sum(weight*value) / max(sum(weight), 1e-12) over exactly the stored score
\* metrics of that region whose kind is a key of the weight map; a metric of
\* an unknown kind adds to neither sum.
C13_OverallIsWeightedMean ==
    Scored =>
    \A j \in 1..Len(regions) :
        LET r    == regions[j]
            num  == SumOver(Weighted(r), [k \in Weighted(r) |->
                        Weight(KindOf(prevDataset.vars[k].name)) * prevDataset.vars[k].value.n])
            sumw == SumOver(Weighted(r), [k \in Weighted(r) |->
                        Weight(KindOf(prevDataset.vars[k].name))])
        IN  \A k \in Overalls(r) :
                LET o == dataset.vars[k].value
                IN  IF sumw > 0 THEN ~o.eps /\ o.n * sumw = num * o.d
                    ELSE o.eps /\ o.n = num

\* C14: a region with no score metric of a known kind gets the overall score
\* 0, and no error.
C14_NoScoresGivesZero ==
    Scored =>
    \A j \in 1..Len(regions) :
        Weighted(regions[j]) = {} =>
            /\ Overalls(regions[j]) # {}
            /\ \A k \in Overalls(regions[j]) : dataset.vars[k].value.n = 0

\* C15: after any number of calls the result set holds exactly one
\* overall_score_over_<region> per region; a further call overwrites it, does
\* not take the stored overall scores as input, and with unchanged score
\* metrics stores the same value.
C15_OneOverallPerRegion ==
    Scored =>
        /\ \A j \in 1..Len(regions) : Cardinality(Overalls(regions[j])) = 1
        /\ nscore >= 2 => dataset = prevDataset

\* a second call on a result set with scores of known kinds in two regions
C15_Witness ==
    /\ Scored /\ nscore >= 2 /\ Len(regions) = 2
    /\ \A j \in 1..Len(regions) :
           \E k \in Overalls(regions[j]) : dataset.vars[k].value.n > 0

\* C16: computeOverallScore(m) never stores an overall score in a result set
\* whose confront(m) has not run to its end: not while it is in progress, and
\* not after it was aborted part-way.
C16_ScoredAfterAnalysis == lastScore \in {"none", "complete"}

\* ------------------------------------------------------ claims on ilamblib
\* the last call was fn with normalize nz on arrays of equal length
Applied(fn, nz) ==
    out.fn = fn /\ out.normalize = nz /\ Len(ref) = Len(pred)

\* two results are the same number
SameValue(a, b) ==
    /\ a.kind = b.kind
    /\ a.kind = "fin" => a.root = b.root /\ a.n * b.d = b.n * a.d

\* a result is the number n/d, for n >= 0 and d > 0
IsValue(a, n, d) ==
    /\ a.kind = "fin"
    /\ IF a.root THEN a.n * d * d = n * n * a.d ELSE a.n * d = n * a.d

\* pred is a rearrangement of ref
IsPermutation(a, b) ==
    /\ Len(a) = Len(b)
    /\ \A v \in -MaxVal..(3 * MaxVal) :
           Cardinality({k \in 1..Len(a) : a[k] = v}) = Cardinality({k \in 1..Len(b) : b[k] = v})

\* C17: the Bias score of two finite arrays of equal length, a reference of
\* mean zero included, is a number in [0, 1], and it is 1 exactly when the
\* two means are equal.
C17_BiasScoreInUnitInterval ==
    Applied("bias", "score") =>
        /\ out.res.status = "ok"
        /\ out.res.value.kind = "fin"
        /\ 0 <= out.res.value.n /\ out.res.value.n <= out.res.value.d
        /\ IsValue(out.res.value, 1, 1) <=> SeqSum(pred) = SeqSum(ref)

\* C18: RootMeanSquaredError(x, x) is 0, and without normalization
\* RootMeanSquaredError(a, b) is RootMeanSquaredError(b, a).
C18_RmseZeroAndSymmetric ==
    Applied("rmse", "none") =>
        /\ out.res.status = "ok"
        /\ ref = pred => IsValue(out.res.value, 0, 1)
        /\ SameValue(out.res.value, RootMeanSquaredError(pred, ref, "none").value)

\* the error of two different arrays whose ranges differ
C18_Witness ==
    /\ Applied("rmse", "none")
    /\ Range(ref) # Range(pred) /\ Range(ref) > 0 /\ Range(pred) > 0
    /\ ~IsValue(out.res.value, 0, 1)

\* C19: RootMeanSquaredError is the square root of the mean of the squared
\* differences; "maxmin" divides it by the range of the reference, not of the
\* prediction; reference [1,2,3] and prediction [4,5,6] give 3.0, and 1.5 with
\* "maxmin".
C19_RmseValue ==
    LET n    == Len(ref)
        sumsq == SeqSum([k \in 1..n |-> (pred[k] - ref[k]) * (pred[k] - ref[k])])
        v    == out.res.value
    IN  /\ Applied("rmse", "none") =>
              /\ v.kind = "fin" /\ v.root /\ v.n * n = sumsq * v.d
              /\ ref = <<1, 2, 3>> /\ pred = <<4, 5, 6>> => IsValue(v, 3, 1)
        /\ Applied("rmse", "maxmin") /\ Range(ref) # 0 =>
              /\ v.kind = "fin" /\ v.root
              /\ v.n * n * Range(ref) * Range(ref) = sumsq * v.d
              /\ ref = <<1, 2, 3>> /\ pred = <<4, 5, 6>> => IsValue(v, 3, 2)

\* a normalized error of arrays whose ranges differ
C19_Witness ==
    /\ Applied("rmse", "maxmin")
    /\ Range(ref) > 0 /\ Range(pred) > 0 /\ Range(ref) # Range(pred)
    /\ ~IsValue(out.res.value, 0, 1)

ObsBefore == IF prevStage.called THEN prevStage.res.cache.var ELSE srcdata[0]

\* the calls of the last stageData call on the model
ModelCalls == SelectSeq(lastStage.res.calls, LAMBDA c : c.op # "load")

\* the last stageData call got as far as asking the model
AskedModel == lastStage.called /\ ObsBefore.temporal /\ ObsBefore.time # <<>>

\* C11: stageData first asks extractTimeSeries; derivedVariable is called if
\* and only if that raised, once, after it, with the same window [t0, tf] (the
\* observation's extent) and the same coordinates (the site coordinates
\* exactly when the observation is not gridded); when the derivation fails
\* too, its error is what stageData raises.
C11_ExtractThenDerive ==
    AskedModel =>
    LET cs     == ModelCalls
        direct == ModelOf(lastStage.m).has = "direct"
    IN  /\ cs # <<>> /\ cs[1].op = "extract"
        /\ cs[1].t0 = SeqMin(ObsBefore.time) /\ cs[1].tf = SeqMax(ObsBefore.time)
        /\ cs[1].coords = ~ObsBefore.spatial
        /\ Len(cs) = (IF direct THEN 1 ELSE 2)
        /\ ~direct => cs[2] = [cs[1] EXCEPT !.op = "derive"]
        /\ ModelOf(lastStage.m).has = "none" => lastStage.res.status = "VarNotInModel"

\* extraction raised on a site-sampled observation and the derivation gave
\* the pair that stageData returned
C11_Witness ==
    /\ Returned(lastStage)
    /\ ~ObsBefore.spatial
    /\ Len(ModelCalls) = 2 /\ ModelCalls[2].op = "derive" /\ ModelCalls[2].coords

\* the pair of time axes after the clipping step of the last call
Clipped == StageAlign(ObsBefore, StageExtract(ObsBefore, ModelOf(lastStage.m)).mod)

\* the last call got through the clipping step
ReachedChecks ==
    /\ AskedModel
    /\ ModelOf(lastStage.m).has # "none"
    /\ LET mod0 == StageExtract(ObsBefore, ModelOf(lastStage.m)).mod
       IN  ~(Len(ObsBefore.time) # Len(mod0.time) /\ mod0.time = <<>>)

Nearest(time, t) ==
    CHOOSE k \in 1..Len(time) :
        \A j \in 1..Len(time) :
            \/ Abs(time[k] - t) < Abs(time[j] - t)
            \/ Abs(time[k] - t) = Abs(time[j] - t) /\ k <= j

\* the model series that the last call got from the model
Extracted == StageExtract(ObsBefore, ModelOf(lastStage.m)).mod

\* C26: when the two time axes have equal length stageData modifies neither
\* series; when they differ, each is cut to the samples from the one nearest
\* t0 = max of the start times through the one nearest tf = min of the end
\* times, time and data with the same indices.
C26_ClipToNearestSamples ==
    ReachedChecks =>
    LET o0  == ObsBefore
        m0  == Extracted
        t0  == Max2(SeqMin(o0.time), SeqMin(m0.time))
        tf  == Min2(SeqMax(o0.time), SeqMax(m0.time))
        o1  == lastStage.res.cache.var
        cut(x) == SubSeq(x, Nearest(o0.time, t0), Nearest(o0.time, tf))
        cutm(x) == SubSeq(x, Nearest(m0.time, t0), Nearest(m0.time, tf))
    IN  /\ Len(o1.time) = Len(o1.data)
        /\ IF Len(o0.time) = Len(m0.time)
           THEN /\ o1 = o0
                /\ Returned(lastStage) => lastStage.res.mod.time = m0.time
           ELSE /\ o1.time = cut(o0.time) /\ o1.data = cut(o0.data)
                /\ Returned(lastStage) =>
                       /\ lastStage.res.mod.time = cutm(m0.time)
                       /\ Len(lastStage.res.mod.data) = Len(lastStage.res.mod.time)

\* a normal return after both series were cut
C26_Witness ==
    /\ Returned(lastStage)
    /\ Len(Extracted.time) > Len(lastStage.res.mod.time)
    /\ Len(ObsBefore.time) > Len(lastStage.res.obs.time)
    /\ Len(lastStage.res.obs.time) > 1

\* one pass of the loop as the claim describes it
OnePass(var) ==
    LET u == var.unit
        v == IF HasS1(u) THEN ReplaceS1(u) ELSE IF HasKg(u) THEN ReplaceKg(u) ELSE u
    IN  [var EXCEPT !.unit = v,
                    !.data = [k \in 1..Len(var.data) |-> var.data[k] + UnitLog(v) - UnitLog(u)]]

\* C27: the rescaling loop ends after at most 2 passes and makes none when
\* the observation's mean order of magnitude is at least -2; a pass replaces
\* "s-1" by "d-1" if the unit has it, otherwise "kg" by "g" if the unit has
\* it, otherwise changes nothing; the model data are rescaled only by the
\* final conversion to the observation's unit.
C27_AtMostTwoPasses ==
    Returned(lastStage) =>
    LET o1 == lastStage.res.cache.var
        p  == lastStage.res.passes
        m1 == StageAlign(ObsBefore, Extracted).mod
    IN  /\ p \in 0..2
        /\ p = 0 <=> ~OrderBelow(o1)
        /\ p = 0 => lastStage.res.obs = o1
        /\ p = 1 => lastStage.res.obs = OnePass(o1) /\ ~OrderBelow(OnePass(o1))
        /\ p = 2 => lastStage.res.obs = OnePass(OnePass(o1)) /\ OrderBelow(OnePass(o1))
        /\ lastStage.res.mod.data =
               [k \in 1..Len(m1.data) |->
                   m1.data[k] + UnitLog(lastStage.res.obs.unit) - UnitLog(m1.unit)]

\* a return after one pass on a unit that has both "s-1" and "kg"
C27_Witness ==
    /\ Returned(lastStage)
    /\ lastStage.res.passes = 1
    /\ HasS1(lastStage.res.cache.var.unit) /\ HasKg(lastStage.res.cache.var.unit)

\* C28: what stageData returns for a model does not depend on the models
\* staged before on the same instance: it is the pair a fresh instance
\* returns; and no stageData call changes the cached observation.
C28_HistoryIndependent ==
    LET fresh == StageData(NoCache, srcdata[0], ModelOf(lastStage.m))
    IN  /\ Returned(lastStage) =>
               /\ fresh.status = "ok"
               /\ lastStage.res.obs = fresh.obs
               /\ lastStage.res.mod = fresh.mod
        /\ lastStage.called => lastStage.res.cache.var = srcdata[0]

\* C30: when the time extents of the observation and of the model do not
\* overlap (the later start is after the earlier end) stageData raises
\* VarNotOnTimeScale or VarsNotComparable, and returns no pair.
C30_NoOverlapRaises ==
    LET o == ObsBefore.time
        t == ModelOf(lastStage.m).var.time
    IN  (AskedModel /\ ModelOf(lastStage.m).has # "none" /\ t # <<>>
            /\ Max2(SeqMin(o), SeqMin(t)) > Min2(SeqMax(o), SeqMax(t))) =>
        lastStage.res.status \in {"VarNotOnTimeScale", "VarsNotComparable"}

\* ------------------------------------------- claims on confront, continued
\* instance i is inside confront with its result sets open
Writing(i) == pc[i] \in {"opened", "rel", "close"}

\* C24: two confront calls on different models write different per-model
\* result sets and neither writes the other's; and whatever the model is
\* called, its per-model result set is not the benchmark result set: a master
\* holds two result sets open, a non-master does not hold the benchmark one.
C24_ResultSetsDisjoint ==
    /\ \A i \in Insts : \A j \in Insts \ {i} :
           Writing(i) /\ Writing(j) /\ cur[i].m # cur[j].m => cur[j].m \notin handles[i]
    /\ \A i \in Insts :
           Writing(i) => IF master[i] THEN Cardinality(handles[i]) = 2
                                      ELSE BenchFile \notin handles[i]

\* C25: in a confront(m) that runs to its end the fluxrate analysis comes
\* first; then, for the dependents in list order, the dependent is staged
\* against m and the relationship analysis is run on the model result set,
\* and on the benchmark result set by a master and not by another instance;
\* the result sets opened are closed when confront returns.
C25_RelationshipsInOrder ==
    [][\A i \in Insts :
        LET m == cur[i].m
            k == Len(relationships)
        IN  /\ pc[i] = "opened" /\ ConfrontStep(i) /\ pc'[i] # "idle" =>
                   /\ Fluxrate \in files'[m].sections
                   /\ IF k = 0 THEN pc'[i] = "close" ELSE pc'[i] = "rel" /\ cur'[i].dep = 1
            /\ pc[i] = "rel" /\ ConfrontStep(i) /\ pc'[i] # "idle" =>
                   LET d == cur[i].dep
                       c == relationships[d]
                   IN  /\ StageData(data[i][c], srcdata[c], ModelFor(m, c)).status = "ok"
                       /\ data'[i][c].loaded
                       /\ files'[m].sections = files[m].sections \cup {RelSection(c)}
                       /\ IF master[i]
                          THEN files'[BenchFile].sections
                                   = files[BenchFile].sections \cup {RelSection(c)}
                          ELSE files'[BenchFile] = files[BenchFile]
                       /\ IF d = k THEN pc'[i] = "close" ELSE pc'[i] = "rel" /\ cur'[i].dep = d + 1
            /\ pc[i] = "close" /\ pc'[i] = "idle" =>
                   /\ outcome'[i] = "ok"
                   /\ handles'[i] = {}]_vars

\* ---------------------------------- claims on computeOverallScore, continued
\* the score metrics recorded for region r before the call
RecordedFor(r) ==
    SelectSeq(ScoreVariables(prevDataset.vars), LAMBDA e : e.name[Len(e.name)] = r)

\* C29: the overall score of a region is made of the score metrics recorded
\* for that region alone: it is the value the same sums give when every
\* metric recorded for another region is left out.
C29_OwnMetricsOnly ==
    Scored =>
    \A j \in 1..Len(regions) :
        \A k \in Overalls(regions[j]) :
            dataset.vars[k].value = OverallValue(RecordedFor(regions[j]), regions[j])

\* ------------------------------------------- claims on ilamblib, continued
\* a function of the time series has been applied to args
SeriesCalled == out.fn # "" /\ out.fn = args.fn

\* C21: a function called with t and var of different lengths fails and
\* returns no result.
C21_MismatchedLengthsRejected ==
    SeriesCalled /\ Len(args.t) # Len(args.var) => out.res.status # "ok"

\* a time in January: in the first 31 days of a year
InJanuary(x) == x % HalfDaysPerYear < 2 * DAYS_PER_MONTH[1]

\* the samples before the first January sample of t
BeforeFirstJanuary(t) == {k \in 1..Len(t) : \A j \in 1..k : ~InJanuary(t[j])}

\* the whole years of 12 samples of a that follow its first skip samples
YearsAfter(a, skip) ==
    [y \in 1..((Len(a) - skip) \div 12) |-> SubSeq(a, skip + 12 * y - 11, skip + 12 * y)]

\* C22: on a monthly series of 12 samples and more, whatever the month of the
\* first sample, the years of AnnualMean and AnnualMinMax are the whole
\* years of 12 samples from the first January sample on: the samples before
\* it and the partial year at the end are left out.
C22_YearsStartInJanuary ==
    SeriesCalled /\ out.fn \in {"AnnualMean", "AnnualMinMax"}
                 /\ Len(args.t) >= 12 /\ Len(args.var) = Len(args.t) =>
        LET skip == Cardinality(BeforeFirstJanuary(args.t))
            ty   == YearsAfter(args.t, skip)
            vy   == YearsAfter(args.var, skip)
            v    == out.res.value
        IN  Len(ty) >= 1 =>
                /\ out.res.status = "ok"
                /\ out.fn = "AnnualMean" =>
                       /\ v.tmean = [y \in 1..Len(ty) |-> WeightedAverage(ty[y])]
                       /\ v.vmean = [y \in 1..Len(vy) |-> WeightedAverage(vy[y])]
                /\ out.fn = "AnnualMinMax" =>
                       /\ v.vmin = [y \in 1..Len(vy) |-> SeqMin(vy[y])]
                       /\ v.vmax = [y \in 1..Len(vy) |-> SeqMax(vy[y])]

\* C23: the trend WindowedTrend gives at sample i is the slope of the line
\* fitted to the samples whose time is inside the window around t[i], and to
\* no other sample.
C23_FitInsideWindow ==
    SeriesCalled /\ out.fn = "WindowedTrend" /\ Len(args.var) = Len(args.t) =>
        LET inside(i) == Condition(args.t, args.window, i)
        IN  (\A i \in 1..Len(args.t) : Cardinality(inside(i)) >= 2) =>
                /\ out.res.status = "ok"
                /\ \A i \in 1..Len(args.t) :
                       SameValue(out.res.value[i],
                                 PolyFitSlope(args.t, args.var, inside(i)).value)

====
